---- MODULE Spec2Model ----
(***************************************************************************)
(* Model of the BOPTEST testing utilities (src/testing/utilities.py) and   *)
(* of the example driver (src/examples/python/testcase2.py).               *)
(*                                                                         *)
(* Three parts share the module:                                           *)
(*   - the trajectory comparator  partialChecks.check_trajectory           *)
(*     (specification SpecTraj),                                           *)
(*   - the reference store  compare_ref_timeseries_df / _values_df / _json *)
(*     with create_test_points (specifications SpecRef and SpecCrash),     *)
(*   - the drivers of the remote session: run_time_period, run_season,     *)
(*     testcase2.run and the API tests (specifications SpecRun, FairRun).  *)
(*                                                                         *)
(* Numbers.  Python floats are modelled in fixed point: the integer v      *)
(* stands for v / UnitsPerOne, and one unit is half the tolerance (5e-4).  *)
(* Quotients are kept as exact fractions [n, d].                           *)
(***************************************************************************)
EXTENDS Integers, Sequences, FiniteSets, TLC

VARIABLES
    y_test,     \* check_trajectory: the test trajectory handed in
    y_ref,      \* check_trajectory: the reference trajectory handed in
    result,     \* check_trajectory: the returned dictionary (NotCalled before the call)
    s_in,       \* create_test_points: the series s handed in
    n_in,       \* create_test_points: the number n of points to create
    s_out,      \* create_test_points: the returned series (NotCreated before the call)
    files,      \* the reference files: path -> [exists, lines]
    call,       \* the last compare_ref_* call: its arguments and how it ended
    session,    \* the remote test case: phase, step, clock, horizon, scenario
    run,        \* the driver that is running: its name and argument
    pc,         \* the driver's position: index of its next statement (0: no run)
    loc,        \* the driver's locals: the step it read, y, the loop counter
    sent,       \* the requests sent in this run, with the responses
    nruns,      \* the number of runs started
    unittest_result \* the test runner's result: the failures and errors so far

trajVars == <<y_test, y_ref, result, s_in, n_in, s_out>>

refVars == <<files, call>>

runVars == <<session, run, pc, loc, sent, nruns, unittest_result>>

vars ==
    <<y_test, y_ref, result, s_in, n_in, s_out, files, call, session, run, pc, loc, sent, nruns,
      unittest_result>>

----------------------------------------------------------------------------
(* Bounds of the model *)

\* longest trajectory handed to check_trajectory
MaxLen == 2

\* most rows of a dataframe handed to the reference store
MaxRows == 2

\* points that create_test_points makes in the model (the code's default is n = 500)
NGrid == 3

\* most runs started against one deployed test case
MaxRuns == 2

\* most advances that a time-period scenario answers before its horizon ends
MaxHorizon == 3

\* the communication step of the deployed test case (self.step_ref), in seconds
StepRef == 3600

\* the sample values of the trajectories, in units of 5e-4:
\* 0, 5e-4, 1.5e-3 lie under the relative-error threshold, -0.01 sits on it,
\* -0.0105 just over it, 1.0 and 1.0005 are the boundary example of the text
Vals == {-21, -20, 0, 1, 3, 2000, 2001}

Trajs == UNION {[1..k -> Vals] : k \in 0..MaxLen}

----------------------------------------------------------------------------
(* Arithmetic *)

\* tol = 1e-3, two units of 5e-4
Tol == 2

\* the fixed-point scale: 1.0 is 1000 * tol
UnitsPerOne == 1000 * Tol

Abs(x) == IF x < 0 THEN -x ELSE x

Rat(n, d) == [n |-> n, d |-> d]

\* x > y for non-negative fractions; whole parts first, so that the cross
\* products stay small
RatGt(x, y) ==
    LET xq == x.n \div x.d
        yq == y.n \div y.d
    IN  \/ xq > yq
        \/ xq = yq /\ (x.n % x.d) * y.d > (y.n % y.d) * x.d

RatEq(x, y) == ~RatGt(x, y) /\ ~RatGt(y, x)

----------------------------------------------------------------------------
(* Python values held by the result dictionary *)

PyNone == [kind |-> "None", elem |-> "", val |-> Rat(0, 1)]

PyFloat(x) == [kind |-> "float", elem |-> "", val |-> x]

PyInt(i) == [kind |-> "int", elem |-> "", val |-> Rat(i, 1)]

\* the one-element tuple (x,) that an assignment ending in a comma builds
PyTuple1(x) == [kind |-> "tuple", elem |-> x.kind, val |-> x.val]

NoMessage ==
    [kind |-> "None", text |-> "", err_max |-> Rat(0, 1), i_max |-> 0,
     y_test |-> 0, y_ref |-> 0]

MsgLength == "Test and reference trajectory not the same length."

MsgTolerance ==
    "Max error ({0}) in trajectory greater than tolerance ({1}) at index {2}. y_test: {3}, y_ref:{4}"

----------------------------------------------------------------------------
(* partialChecks.check_trajectory *)

\* result = {'Pass': True, 'ErrorMax': None, 'IndexMax': None, 'Message': None}
InitResult ==
    [Pass |-> TRUE, ErrorMax |-> PyNone, IndexMax |-> PyNone, Message |-> NoMessage]

\* if len(y_test) != len(y_ref)
LengthsDiffer(yt, yr) == Len(yt) # Len(yr)

\* the length branch: Pass = False, Message = '... not the same length.'
FailLengthKeepPass(res) ==
    [res EXCEPT !.Message = [NoMessage EXCEPT !.kind = "str", !.text = MsgLength]]

FailLength(res) ==
    [res EXCEPT !.Pass = FALSE,
                !.Message = [NoMessage EXCEPT !.kind = "str", !.text = MsgLength]]

\* err_abs[i] = np.absolute(y_test[i] - y_ref[i])
ErrAbs(t, r) == Abs(t - r)

\* if abs(y_ref[i]) > 10 * tol
RelErrApplies(r) == Abs(r) > 10 * Tol

\* err_fun[i] = err_abs[i] + err_rel[i], with err_rel[i] = err_abs[i] / abs(y_ref[i])
\* when the relative error applies and 0 otherwise.  In units:
\* a + UnitsPerOne * a / |r| = (a * |r| + UnitsPerOne * a) / |r|
ErrFun(t, r) ==
    LET a == ErrAbs(t, r)
    IN  IF RelErrApplies(r)
        THEN Rat(a * Abs(r) + UnitsPerOne * a, Abs(r))
        ELSE Rat(a, 1)

\* np.zeros(len(y_ref))
Zeros(n) == [k \in 1..n |-> Rat(0, 1)]

\* i_max = np.argmax(err_fun): the first position (from 1) holding the maximum
ArgMax(err_fun) ==
    CHOOSE k \in 1..Len(err_fun) :
        /\ \A j \in 1..Len(err_fun) : ~RatGt(err_fun[j], err_fun[k])
        /\ \A j \in 1..(k - 1) : RatGt(err_fun[k], err_fun[j])

\* err_max = max(err_fun)
MaxOf(err_fun) == err_fun[ArgMax(err_fun)]

\* if err_max > tol
ExceedsTolGe(err_max) == ~RatGt(Rat(Tol, 1), err_max)

ExceedsTol(err_max) == RatGt(err_max, Rat(Tol, 1))

\* the tolerance branch; both assignments end in a comma, so the fields
\* receive one-element tuples; Python indices count from 0
FailTolerance(res, err_fun, yt, yr) ==
    LET k == ArgMax(err_fun)
    IN  [Pass     |-> FALSE,
         ErrorMax |-> PyTuple1(PyFloat(err_fun[k])),
         IndexMax |-> PyTuple1(PyInt(k - 1)),
         Message  |-> [kind |-> "str", text |-> MsgTolerance, err_max |-> err_fun[k],
                       i_max |-> k - 1, y_test |-> yt[k], y_ref |-> yr[k]]]

\* for i in range(len(y_ref)): one pass of the loop body with index i (from 1);
\* the maximum is assessed inside the loop, over the array filled so far
RECURSIVE CheckLoop(_, _, _, _, _)
CheckLoop(yt, yr, i, err_fun, res) ==
    IF i > Len(yr)
    THEN res
    ELSE LET filled == [err_fun EXCEPT ![i] = ErrFun(yt[i], yr[i])]
             res2 == IF ExceedsTol(MaxOf(filled))
                     THEN FailTolerance(res, filled, yt, yr)
                     ELSE res
         IN  CheckLoop(yt, yr, i + 1, filled, res2)

check_trajectory(yt, yr) ==
    IF LengthsDiffer(yt, yr)
    THEN FailLength(InitResult)
    ELSE CheckLoop(yt, yr, 1, Zeros(Len(yr)), InitResult)

\* the state before check_trajectory has been called
NotCalled ==
    [Pass |-> FALSE, ErrorMax |-> PyNone, IndexMax |-> PyNone,
     Message |-> [NoMessage EXCEPT !.kind = "not called"]]

Called == result # NotCalled

----------------------------------------------------------------------------
(* Reference files *)

TsPath == "references/results.csv"

ValPath == "references/kpis.csv"

JsonPath == "references/get_inputs.json"

Paths == {TsPath, ValPath, JsonPath}

\* os.path.exists(ref_filepath) is false
NoFile == [exists |-> FALSE, lines |-> <<>>]

File(lines) == [exists |-> TRUE, lines |-> lines]

\* the numbers that dataframes hold in the model
NumRange == 0 .. (10 * (MaxRows + 1) * (MaxRows + 1))

\* a number as to_csv / json.dump writes it
FormatNum(v) == ToString(v)

\* a number as read_csv / json.load reads it
ParseNum(s) == CHOOSE v \in NumRange : ToString(v) = s

Range(seq) == {seq[k] : k \in 1..Len(seq)}

\* position of x in seq (0 when absent)
IndexOf(seq, x) ==
    IF x \in Range(seq) THEN CHOOSE k \in 1..Len(seq) : seq[k] = x ELSE 0

----------------------------------------------------------------------------
(* Dataframes and documents handed to the reference store *)

\* the irregular sample times 0, 10, 30, 60, ...
Times(rows) == [k \in 1..rows |-> 5 * k * (k - 1)]

\* a dataframe: the index name, the columns in order, the index, and the
\* column data
Frame(index_name, columns, index, data) ==
    [index_name |-> index_name, columns |-> columns, index |-> index, data |-> data]

TsColumns == {<<"TRooAir_y">>, <<"PHea_y">>, <<"TRooAir_y", "PHea_y">>}

\* a trajectory rising by sl units per row
Ramp(rows, sl) == [k \in 1..rows |-> sl * k]

\* the slopes: flat, and two units (the tolerance) per row
TsSlopes == {0, 2}

TsFrames ==
    UNION {{Frame("time", cols, Times(rows), [c \in Range(cols) |-> Ramp(rows, sl[c])]) :
                sl \in [Range(cols) -> TsSlopes], rows \in 0..MaxRows} : cols \in TsColumns}

\* a dataframe whose index is not named 'time'
TsBadFrame == Frame("index", <<"TRooAir_y">>, Times(1), [c \in {"TRooAir_y"} |-> Ramp(1, 0)])

ValKeys == {<<"ener_tot">>, <<"ener_tot", "cost_tot">>}

ValValues == {0, 3}

\* a table of scalars: index 'keys', one column 'value'
ValFrames ==
    {Frame("keys", <<"value">>, keys, [c \in {"value"} |-> [k \in 1..Len(keys) |-> v]]) :
        keys \in ValKeys, v \in ValValues}

\* tables that break the two assertions of compare_ref_values_df
ValBadIndex == Frame("index", <<"value">>, <<"ener_tot">>, [c \in {"value"} |-> <<0>>])

ValBadColumns == Frame("keys", <<"val">>, <<"ener_tot">>, [c \in {"val"} |-> <<0>>])

\* a JSON object as a Python dict: its items in insertion order
JsonDocs ==
    { << <<"oveAct_u", "1">> >>,
      << <<"oveAct_u", "2">> >>,
      << <<"oveAct_u", "1">>, <<"oveAct_activate", "0">> >>,
      << <<"oveAct_activate", "0">>, <<"oveAct_u", "1">> >> }

----------------------------------------------------------------------------
(* DataFrame.to_csv and pandas.read_csv *)

\* df.to_csv(path): a header line with the index name and the columns, then
\* one line per row
ToCsv(df, numeric_index) ==
    LET header == <<df.index_name>> \o df.columns
        row(i) == << IF numeric_index THEN FormatNum(df.index[i]) ELSE df.index[i] >>
                  \o [c \in 1..Len(df.columns) |-> FormatNum(df.data[df.columns[c]][i])]
    IN  <<header>> \o [i \in 1..Len(df.index) |-> row(i)]

\* whether pd.read_csv(path, index_col=name) raises: EmptyDataError on a file
\* without a line, ValueError when no column carries the index name
ReadCsvFails(lines, index_col) ==
    \/ Len(lines) = 0
    \/ index_col \notin Range(lines[1])

\* pd.read_csv(path, index_col=name)
ReadCsv(lines, index_col, numeric_index) ==
    LET header == lines[1]
        ic == IndexOf(header, index_col)
        cols == SelectSeq(header, LAMBDA h : h # index_col)
        nrows == Len(lines) - 1
    IN  Frame(index_col, cols,
              [i \in 1..nrows |-> IF numeric_index THEN ParseNum(lines[i + 1][ic])
                                  ELSE lines[i + 1][ic]],
              [c \in Range(cols) |->
                  [i \in 1..nrows |-> ParseNum(lines[i + 1][IndexOf(header, c)])]])

\* json.dump(json_test, f): the braces and one chunk per item
JsonDump(doc) == << <<"{">> >> \o doc \o << <<"}">> >>

\* whether json.load(f) raises JSONDecodeError: the text is not a whole object
JsonLoadFails(lines) ==
    \/ Len(lines) < 2
    \/ lines[1] # <<"{">>
    \/ lines[Len(lines)] # <<"}">>

\* json.load(f): the dict, a mapping from key to value
JsonLoad(lines) ==
    LET items == SubSeq(lines, 2, Len(lines) - 1)
    IN  [k \in {items[i][1] : i \in 1..Len(items)} |->
            items[CHOOSE i \in 1..Len(items) :
                    /\ items[i][1] = k
                    /\ \A j \in (i + 1)..Len(items) : items[j][1] # k][2]]

\* the dict that the caller holds, as a mapping
AsDict(doc) ==
    [k \in {doc[i][1] : i \in 1..Len(doc)} |->
        doc[CHOOSE i \in 1..Len(doc) :
                /\ doc[i][1] = k
                /\ \A j \in (i + 1)..Len(doc) : doc[j][1] # k][2]]

----------------------------------------------------------------------------
(* partialChecks.create_test_points *)

MinOf(seq) == CHOOSE x \in Range(seq) : \A y \in Range(seq) : x <= y

MaxOfInts(seq) == CHOOSE x \in Range(seq) : \A y \in Range(seq) : x >= y

\* a pandas Series: the index (times) and the data
Series(index, data) == [index |-> index, data |-> data]

\* index.min() raises ValueError on a series without a row
CreateTestPointsFails(s) == Len(s.index) = 0

\* np.linspace(t_min, t_max, n): n evenly spaced times, both ends included;
\* a single point when n = 1
LinspaceWithoutEndpoint(t_min, t_max, n) ==
    [i \in 1..n |-> Rat(t_min * n + (i - 1) * (t_max - t_min), n)]

Linspace(t_min, t_max, n) ==
    [i \in 1..n |-> IF n = 1 THEN Rat(t_min, 1)
                    ELSE Rat(t_min * (n - 1) + (i - 1) * (t_max - t_min), n - 1)]

\* np.interp(x, xp, fp) at one time x, xp increasing: the end values outside
\* the range, a straight line between the two neighbours inside it
Interp(x, xp, fp) ==
    IF ~RatGt(x, Rat(xp[1], 1)) THEN Rat(fp[1], 1)
    ELSE IF ~RatGt(Rat(xp[Len(xp)], 1), x) THEN Rat(fp[Len(fp)], 1)
    ELSE LET j == CHOOSE j \in 1..(Len(xp) - 1) :
                      /\ ~RatGt(Rat(xp[j], 1), x)
                      /\ RatGt(Rat(xp[j + 1], 1), x)
             dx == xp[j + 1] - xp[j]
         IN  Rat(fp[j] * x.d * dx + (x.n - xp[j] * x.d) * (fp[j + 1] - fp[j]), x.d * dx)

\* float('{:.8g}'.format(x)): the value rounded to the digits kept, here to
\* the nearest unit of the fixed point, ties to even
RoundDigits(x) ==
    LET q == x.n \div x.d
        r2 == 2 * (x.n % x.d)
    IN  IF r2 < x.d THEN q
        ELSE IF r2 > x.d THEN q + 1
        ELSE IF q % 2 = 0 THEN q ELSE q + 1

create_test_points(s, n) ==
    LET t == Linspace(MinOf(s.index), MaxOfInts(s.index), n)
    IN  Series(t, [i \in 1..n |-> RoundDigits(Interp(t[i], s.index, s.data))])

----------------------------------------------------------------------------
(* The reference store: compare_ref_timeseries_df, compare_ref_values_df,  *)
(* compare_ref_json.  Each returns how the call ended:                     *)
(*   outcome   "pass" (returned None), "fail" (AssertionError), "error"    *)
(*             (another exception), "crashed" (the process died)           *)
(*   failures  the assertion messages raised, each with its key            *)
(*   compared  the number of check_trajectory calls made                   *)
(*   wrote     whether the reference was written                           *)
(*   files     the files afterwards                                        *)

Ended(outcome, failures, compared, wrote, fs) ==
    [outcome |-> outcome, failures |-> failures, compared |-> compared,
     wrote |-> wrote, files |-> fs]

Failure(text, key, message) == [text |-> text, key |-> key, message |-> message]

\* os.path.exists(ref_filepath)
RefExistsNever(fs, path) == FALSE

RefExists(fs, path) == fs[path].exists

\* open(path, 'w') and the writes that follow, run to the end
WriteDropsLastLine(fs, path, lines) ==
    [fs EXCEPT ![path] = File(SubSeq(lines, 1, Len(lines) - 1))]

WriteFile(fs, path, lines) == [fs EXCEPT ![path] = File(lines)]

\* the first element of seq that is not in other (<<>> when all are)
FirstNotIn(seq, other) ==
    LET bad == SelectSeq(seq, LAMBDA x : x \notin Range(other))
    IN  IF Len(bad) = 0 THEN <<>> ELSE <<bad[1]>>

\* for key in df.columns: resample both, check, assert
RECURSIVE CheckColumns(_, _, _, _, _)
CheckColumns(df, df_ref, k, compared, fs) ==
    IF k > Len(df.columns)
    THEN Ended("pass", <<>>, compared, FALSE, fs)
    ELSE LET key == df.columns[k]
             s_test == Series(df.index, df.data[key])
             s_ref == Series(df_ref.index, df_ref.data[key])
         IN  IF CreateTestPointsFails(s_test) \/ CreateTestPointsFails(s_ref)
             THEN Ended("error", <<>>, compared, FALSE, fs)
             ELSE LET results == check_trajectory(create_test_points(s_test, NGrid).data,
                                                  create_test_points(s_ref, NGrid).data)
                  IN  IF ~results.Pass
                      THEN Ended("fail", <<Failure("{0} Key is {1}.", key, results.Message)>>,
                                 compared + 1, FALSE, fs)
                      ELSE CheckColumns(df, df_ref, k + 1, compared + 1, fs)

compare_ref_timeseries_df(df, path, fs) ==
    IF df.index_name # "time"
    THEN Ended("fail", <<Failure("assert df.index.name == 'time'", "", NoMessage)>>, 0, FALSE, fs)
    ELSE IF RefExists(fs, path)
    THEN IF ReadCsvFails(fs[path].lines, "time")
         THEN Ended("error", <<>>, 0, FALSE, fs)
         ELSE LET df_ref == ReadCsv(fs[path].lines, "time", TRUE)
                  not_in_test == FirstNotIn(df_ref.columns, df.columns)
                  not_in_ref == FirstNotIn(df.columns, df_ref.columns)
              IN  IF Len(not_in_test) > 0
                  THEN Ended("fail", <<Failure("Reference key {0} not in test data.",
                                               not_in_test[1], NoMessage)>>, 0, FALSE, fs)
                  ELSE IF Len(not_in_ref) > 0
                  THEN Ended("fail", <<Failure("Test key {0} not in reference data.",
                                               not_in_ref[1], NoMessage)>>, 0, FALSE, fs)
                  ELSE CheckColumns(df, df_ref, 1, 0, fs)
    ELSE Ended("pass", <<>>, 0, TRUE, WriteFile(fs, path, ToCsv(df, TRUE)))

\* for key in df.index.values: check the two values as trajectories of length 1
RECURSIVE CheckKeys(_, _, _, _, _)
CheckKeys(df, df_ref, k, compared, fs) ==
    IF k > Len(df.index)
    THEN Ended("pass", <<>>, compared, FALSE, fs)
    ELSE LET key == df.index[k]
         IN  IF key \notin Range(df_ref.index) \/ "value" \notin Range(df_ref.columns)
             THEN \* df_ref.loc[key, 'value'] raises KeyError
                  Ended("error", <<>>, compared, FALSE, fs)
             ELSE LET results == check_trajectory(
                                     <<df.data["value"][k]>>,
                                     <<df_ref.data["value"][IndexOf(df_ref.index, key)]>>)
                  IN  IF ~results.Pass
                      THEN Ended("fail", <<Failure("{0} Key is {1}.", key, results.Message)>>,
                                 compared + 1, FALSE, fs)
                      ELSE CheckKeys(df, df_ref, k + 1, compared + 1, fs)

compare_ref_values_df(df, path, fs) ==
    IF df.index_name # "keys"
    THEN Ended("fail", <<Failure("assert df.index.name == 'keys'", "", NoMessage)>>, 0, FALSE, fs)
    ELSE IF df.columns # <<"value">>
    THEN Ended("fail", <<Failure("assert df.columns.to_list() == ['value']", "", NoMessage)>>,
               0, FALSE, fs)
    ELSE IF RefExists(fs, path)
    THEN IF ReadCsvFails(fs[path].lines, "keys")
         THEN Ended("error", <<>>, 0, FALSE, fs)
         ELSE CheckKeys(df, ReadCsv(fs[path].lines, "keys", FALSE), 1, 0, fs)
    ELSE Ended("pass", <<>>, 0, TRUE, WriteFile(fs, path, ToCsv(df, FALSE)))

compare_ref_json(json_test, path, fs) ==
    IF RefExists(fs, path)
    THEN IF JsonLoadFails(fs[path].lines)
         THEN Ended("error", <<>>, 0, FALSE, fs)
         ELSE IF AsDict(json_test) = JsonLoad(fs[path].lines)
         THEN Ended("pass", <<>>, 0, FALSE, fs)
         ELSE Ended("fail", <<Failure("json_test:{0} does not equal json_ref:{1}", "", NoMessage)>>,
                    0, FALSE, fs)
    ELSE Ended("pass", <<>>, 0, TRUE, WriteFile(fs, path, JsonDump(json_test)))

----------------------------------------------------------------------------
(* The reference store as a state machine *)

NoCall ==
    [fn |-> "none", path |-> "", arg |-> <<>>, existed |-> FALSE, after_baseline |-> FALSE,
     outcome |-> "", failures |-> <<>>, compared |-> 0, wrote |-> FALSE]

\* the record of a finished call; after_baseline: the call before it was the
\* same function with the same data and wrote the reference
CallRecord(fn, path, arg, r) ==
    [fn |-> fn, path |-> path, arg |-> arg, existed |-> files[path].exists,
     after_baseline |-> (call.fn = fn /\ call.wrote /\ call.outcome = "pass" /\ call.arg = arg),
     outcome |-> r.outcome, failures |-> r.failures, compared |-> r.compared,
     wrote |-> r.wrote]

InitRefVars ==
    /\ files = [p \in Paths |-> NoFile]
    /\ call = NoCall

CompareRefTimeseriesDf ==
    \E df \in TsFrames \cup {TsBadFrame} :
        LET r == compare_ref_timeseries_df(df, TsPath, files)
        IN  /\ files' = r.files
            /\ call' = CallRecord("compare_ref_timeseries_df", TsPath, df, r)
            /\ UNCHANGED trajVars
            /\ UNCHANGED runVars

CompareRefValuesDf ==
    \E df \in ValFrames \cup {ValBadIndex, ValBadColumns} :
        LET r == compare_ref_values_df(df, ValPath, files)
        IN  /\ files' = r.files
            /\ call' = CallRecord("compare_ref_values_df", ValPath, df, r)
            /\ UNCHANGED trajVars
            /\ UNCHANGED runVars

CompareRefJson ==
    \E doc \in JsonDocs :
        LET r == compare_ref_json(doc, JsonPath, files)
        IN  /\ files' = r.files
            /\ call' = CallRecord("compare_ref_json", JsonPath, doc, r)
            /\ UNCHANGED trajVars
            /\ UNCHANGED runVars

\* the lines that a call of fn would write for arg
LinesOf(fn, arg) ==
    IF fn = "compare_ref_timeseries_df" THEN ToCsv(arg, TRUE)
    ELSE IF fn = "compare_ref_values_df" THEN ToCsv(arg, FALSE)
    ELSE JsonDump(arg)

\* whether a call of fn with arg reaches its write branch
ReachesWrite(fn, arg, path) ==
    /\ ~RefExists(files, path)
    /\ fn = "compare_ref_timeseries_df" => arg.index_name = "time"
    /\ fn = "compare_ref_values_df" => arg.index_name = "keys" /\ arg.columns = <<"value">>

\* the process dies inside the write of a new reference: open(path, 'w') has
\* created the file and the first k lines have reached it
CrashDuringWrite ==
    \E c \in ({"compare_ref_timeseries_df"} \X {TsPath} \X TsFrames)
             \cup ({"compare_ref_values_df"} \X {ValPath} \X ValFrames)
             \cup ({"compare_ref_json"} \X {JsonPath} \X JsonDocs) :
        LET fn == c[1]
            path == c[2]
            arg == c[3]
            lines == LinesOf(fn, arg)
        IN  /\ ReachesWrite(fn, arg, path)
            /\ \E k \in 0..Len(lines) :
                  /\ files' = [files EXCEPT ![path] = File(SubSeq(lines, 1, k))]
                  /\ call' = [CallRecord(fn, path, arg, Ended("crashed", <<>>, 0, k = Len(lines), files))
                                EXCEPT !.after_baseline = FALSE]
            /\ UNCHANGED trajVars
            /\ UNCHANGED runVars

NextRef == CompareRefTimeseriesDf \/ CompareRefValuesDf \/ CompareRefJson

NextCrash == NextRef \/ CrashDuringWrite

----------------------------------------------------------------------------
(* The remote test case, as the text describes it (sections 4.4 and 6):    *)
(* its code is not part of these sources.                                  *)

\* a request: the method and path, and the fields of its payload that the
\* drivers use (the fields an operation does not carry keep these values)
Request(op) ==
    [op |-> op, start_time |-> 0, warmup_period |-> 0, final_time |-> 0, window |-> "",
     step |-> 0, overrides |-> "", electricity_price |-> "", time_period |-> "",
     point_name |-> "", horizon |-> 0, interval |-> 0]

\* the session of a freshly deployed test case
InitSession ==
    [phase |-> "Uninitialized", step |-> StepRef, clock |-> 0,
     limited |-> FALSE, remaining |-> 0,
     electricity_price |-> "constant", time_period |-> "",
     horizon |-> 24 * 3600, interval |-> 3600, since |-> 0]

\* a response: whether the request went through, whether the body is truthy,
\* and the fields of the body that the drivers read
Response(status, truthy, step) ==
    [status |-> status, truthy |-> truthy, step |-> step,
     electricity_price |-> "", time_period |-> "", horizon |-> 0, interval |-> 0,
     first_time |-> 0, last_time |-> 0]

\* the scenario and the forecast parameters as a response carries them
ScenarioWithoutPeriod(s) ==
    [Response("ok", TRUE, 0) EXCEPT !.electricity_price = s.electricity_price]

Scenario(s) ==
    [Response("ok", TRUE, 0) EXCEPT !.electricity_price = s.electricity_price,
                                    !.time_period = s.time_period]

ForecastParameters(s) ==
    [Response("ok", TRUE, 0) EXCEPT !.horizon = s.horizon, !.interval = s.interval]

\* the trajectory that PUT /results returns, by its first and last time: the
\* part of the window that overlaps the data, which reach from the time of
\* the last initialize to the clock; empty (falsy) when nothing overlaps
Results(s, req) ==
    LET lo == IF req.window = "all" \/ req.start_time < s.since THEN s.since
              ELSE req.start_time
        hi == IF req.window = "all" \/ req.final_time > s.clock THEN s.clock
              ELSE req.final_time
    IN  IF s.phase # "Initialized" \/ lo > hi
        THEN Response("ok", FALSE, 0)
        ELSE [Response("ok", TRUE, 0) EXCEPT !.first_time = lo, !.last_time = hi]

\* what the session becomes on a request, and what it answers; h is the
\* number of advances that the horizon of a newly set time period allows
Serve(s, req, h) ==
    IF req.op = "PUT /initialize"
    THEN [session |-> [s EXCEPT !.phase = "Initialized", !.clock = req.start_time,
                                !.since = req.start_time,
                                !.limited = FALSE, !.remaining = 0,
                                !.electricity_price = "constant", !.time_period = "",
                                !.horizon = InitSession.horizon,
                                !.interval = InitSession.interval],
          response |-> Response("ok", TRUE, 0)]
    ELSE IF req.op = "PUT /step"
    THEN [session |-> [s EXCEPT !.step = req.step], response |-> Response("ok", TRUE, req.step)]
    ELSE IF req.op = "GET /step"
    THEN [session |-> s, response |-> Response("ok", TRUE, s.step)]
    ELSE IF req.op = "POST /advance"
    THEN IF s.phase # "Initialized"
         THEN [session |-> s, response |-> Response("error", FALSE, 0)]
         ELSE IF s.limited /\ s.remaining = 0
         THEN [session |-> s, response |-> Response("ok", FALSE, 0)]
         ELSE [session |-> [s EXCEPT !.clock = @ + s.step,
                                     !.remaining = IF s.limited THEN @ - 1 ELSE @],
               response |-> Response("ok", TRUE, 0)]
    ELSE IF req.op = "PUT /scenario"
    THEN LET t == [s EXCEPT
                      !.electricity_price =
                          IF req.electricity_price # "" THEN req.electricity_price ELSE @,
                      !.time_period = IF req.time_period # "" THEN req.time_period ELSE @,
                      !.limited = IF req.time_period # "" THEN TRUE ELSE @,
                      !.remaining = IF req.time_period # "" THEN h ELSE @]
         IN  [session |-> t, response |-> Scenario(t)]
    ELSE IF req.op = "GET /scenario"
    THEN [session |-> s, response |-> Scenario(s)]
    ELSE IF req.op = "PUT /forecast_parameters"
    THEN LET t == [s EXCEPT !.horizon = req.horizon, !.interval = req.interval]
         IN  [session |-> t, response |-> ForecastParameters(t)]
    ELSE IF req.op = "GET /forecast_parameters"
    THEN [session |-> s, response |-> ForecastParameters(s)]
    ELSE IF req.op = "PUT /results"
    THEN [session |-> s, response |-> Results(s, req)]
    ELSE [session |-> s, response |-> Response("ok", TRUE, 0)]

\* the points that GET /measurements and GET /inputs name
Measurements == <<"TRooAir_y">>

Inputs == <<"oveTSetRooHea_u">>

----------------------------------------------------------------------------
(* The drivers.  A driver is the list of its statements, in order; the     *)
(* statements send requests, call a compare_ref_* method or loop on        *)
(* POST /advance.                                                          *)

\* back: for an assertion on a response received before, how far back
Statement(kind, req) == [kind |-> kind, req |-> req, back |-> 0]

Send(req) == Statement("request", req)

Get(path) == Send(Request(path))

PutInitialize(start_time, warmup_period) ==
    Send([Request("PUT /initialize") EXCEPT !.start_time = start_time,
                                            !.warmup_period = warmup_period])

\* PUT /step with a literal, with self.step_ref, or with the step read before
PutStep(step) == Send([Request("PUT /step") EXCEPT !.step = step])

PutStepLocal == Send([Request("PUT /step") EXCEPT !.overrides = "local"])

PutScenarioPrice(price) == Send([Request("PUT /scenario") EXCEPT !.electricity_price = price])

PutScenarioPeriod(period) == Send([Request("PUT /scenario") EXCEPT !.time_period = period])

\* PUT /scenario with both fields, and with the scenario read before
PutScenario(price, period) ==
    Send([Request("PUT /scenario") EXCEPT !.electricity_price = price, !.time_period = period])

PutScenarioLocal == Send([Request("PUT /scenario") EXCEPT !.overrides = "local"])

PutForecastParameters(horizon, interval) ==
    Send([Request("PUT /forecast_parameters") EXCEPT !.horizon = horizon, !.interval = interval])

\* x = requests.get(path).json(); self.assertEqual(expected, x): expected
\* holds the fields that the response has to carry
AssertGet(path, expected) == Statement("assert_get", [expected EXCEPT !.op = path])

\* self.assertDictEqual(ret.json(), expected), ret being the response
\* received back requests ago
AssertEqual(expected, back) == [Statement("assert_equal", expected) EXCEPT !.back = back]

\* requests.post('{0}/advance', data=...): u is "" for an empty payload
PostAdvance(u) == [Request("POST /advance") EXCEPT !.overrides = u]

\* self.compare_ref_*(df, ref_filepath)
Compare(fn) == Statement("compare", Request(fn))

\* self.results_to_df(points, start_time, final_time, url)
ResultsToDf(window, start_time, final_time) ==
    Statement("results_to_df",
              [Request("PUT /results") EXCEPT !.window = window, !.start_time = start_time,
                                              !.final_time = final_time])

\* self.get_all_points(url)
GetAllPoints == Statement("get_all_points", Request(""))

\* for i in range(int(length / step)): advance; the step is a literal or
\* the one read by GET /step
ForAdvance(u, length, step) ==
    Statement("for_advance", [PostAdvance(u) EXCEPT !.final_time = length, !.step = step])

ForAdvanceLocal(u, length) ==
    Statement("for_advance", [PostAdvance(u) EXCEPT !.final_time = length, !.window = "local"])

\* y = 1
AssignY == Statement("assign_y", Request(""))

\* while y: y = advance
WhileAdvance(u) == Statement("while_advance", PostAdvance(u))

\* raise ValueError
Raise == Statement("raise", Request(""))

\* the three KPI checks: set the price scenario, GET /kpi, compare
KpiChecks ==
    << PutScenarioPrice("constant"), Get("GET /kpi"), Compare("compare_ref_values_df"),
       PutScenarioPrice("dynamic"), Get("GET /kpi"), Compare("compare_ref_values_df"),
       PutScenarioPrice("highly_dynamic"), Get("GET /kpi"), Compare("compare_ref_values_df") >>

\* length = 48*3600 (run_season), length = 24*3600*2 (testcase2.run)
Length == 48 * 3600

\* step = 3600 (testcase2.run)
Step == 3600

\* partialTestTimePeriod.run_time_period
run_time_period(time_period) ==
    << PutScenarioPeriod(time_period),
       AssignY,
       WhileAdvance(""),
       ResultsToDf("all", 0, 0),
       Compare("compare_ref_timeseries_df") >>
    \o KpiChecks
    \o << PutScenarioPrice("constant") >>

SeasonStart(season) ==
    IF season = "winter" THEN 1 * 24 * 3600
    ELSE IF season = "summer" THEN 248 * 24 * 3600
    ELSE 118 * 24 * 3600

\* partialTestSeason.run_season
run_season(season) ==
    IF season \notin {"winter", "summer", "shoulder"}
    THEN << Raise >>
    ELSE << PutInitialize(SeasonStart(season), 0),
            Get("GET /step"),
            ForAdvanceLocal("", Length),
            PutScenarioPrice("constant"),
            GetAllPoints,
            ResultsToDf("range", SeasonStart(season), SeasonStart(season) + Length),
            Compare("compare_ref_timeseries_df") >>
         \o KpiChecks

\* testcase2.run
testcase2_run ==
    << Get("GET /name"),
       Get("GET /inputs"),
       Get("GET /measurements"),
       Get("GET /step"),
       PutInitialize(0, 0),
       PutStep(Step),
       ForAdvance("u", Length, Step),
       Get("GET /kpi"),
       ResultsToDf("range", 0, Length) >>

\* partialTestAPI.test_initialize
test_initialize ==
    << GetAllPoints,
       Get("GET /step"),
       PutInitialize(12 * 3600, 12 * 3600),
       Compare("compare_ref_values_df"),
       ResultsToDf("range", 0, 12 * 3600),
       Compare("compare_ref_timeseries_df"),
       Get("GET /kpi"),
       Compare("compare_ref_values_df"),
       PutStep(24 * 3600),
       Send(PostAdvance("")),
       ResultsToDf("range", 12 * 3600, 12 * 3600 + 24 * 3600),
       Compare("compare_ref_timeseries_df"),
       Get("GET /kpi"),
       Compare("compare_ref_values_df"),
       PutStepLocal >>

\* partialTestAPI.test_advance_no_data
test_advance_no_data_without_initialize ==
    << PutStep(StepRef),
       Send(PostAdvance("")),
       Compare("compare_ref_values_df") >>

test_advance_no_data ==
    << PutInitialize(0, 0),
       PutStep(StepRef),
       Send(PostAdvance("")),
       Compare("compare_ref_values_df") >>

\* partialTestAPI.test_advance_false_overwrite
test_advance_false_overwrite ==
    << PutInitialize(0, 0),
       PutStep(StepRef),
       Send(PostAdvance("u")),
       Compare("compare_ref_values_df") >>

\* partialTestAPI.test_partial_results_inner and test_partial_results_outer
test_partial_results(start_time, final_time) ==
    << PutInitialize(0, 0),
       PutStep(StepRef),
       Get("GET /measurements"),
       Send(PostAdvance("")),
       Send([Request("PUT /results") EXCEPT !.window = "range", !.start_time = start_time,
                                            !.final_time = final_time,
                                            !.point_name = Measurements[1]]),
       Compare("compare_ref_timeseries_df") >>

\* partialTestAPI.test_set_step
test_set_step ==
    << Get("GET /step"),
       PutStep(101),
       AssertGet("GET /step", [Request("") EXCEPT !.step = 101]),
       PutStepLocal >>

\* partialTestAPI.test_put_and_get_parameters
test_put_and_get_parameters ==
    << PutForecastParameters(3600, 300),
       AssertGet("GET /forecast_parameters",
                 [Request("") EXCEPT !.horizon = 3600, !.interval = 300]),
       AssertEqual([Request("PUT /forecast_parameters") EXCEPT !.horizon = 3600,
                                                               !.interval = 300], 1) >>

\* partialTestAPI.test_set_get_scenario
test_set_get_scenario(test_time_period) ==
    << Get("GET /scenario"),
       PutScenario("highly_dynamic", test_time_period),
       AssertGet("GET /scenario", [Request("") EXCEPT !.electricity_price = "highly_dynamic",
                                                      !.time_period = test_time_period]),
       Get("GET /measurements"),
       ResultsToDf("all", 0, 0),
       Compare("compare_ref_timeseries_df"),
       PutScenarioLocal >>

Run(name, arg) == [name |-> name, arg |-> arg]

NoRun == Run("", "")

\* the runs that a test suite may start
Runs ==
    {Run("run_time_period", "peak_heat_day")}
    \cup {Run("run_season", season) : season \in {"winter", "summer", "shoulder", "spring"}}
    \cup {Run("testcase2.run", ""), Run("test_initialize", ""),
          Run("test_advance_no_data", ""), Run("test_advance_false_overwrite", ""),
          Run("test_partial_results_inner", ""), Run("test_partial_results_outer", ""),
          Run("test_set_step", ""), Run("test_put_and_get_parameters", ""),
          Run("test_set_get_scenario", "test_day")}

Script(r) ==
    IF r.name = "run_time_period" THEN run_time_period(r.arg)
    ELSE IF r.name = "run_season" THEN run_season(r.arg)
    ELSE IF r.name = "testcase2.run" THEN testcase2_run
    ELSE IF r.name = "test_initialize" THEN test_initialize
    ELSE IF r.name = "test_advance_no_data" THEN test_advance_no_data
    ELSE IF r.name = "test_advance_false_overwrite" THEN test_advance_false_overwrite
    ELSE IF r.name = "test_partial_results_inner"
    THEN test_partial_results(StepRef \div 4, (3 * StepRef) \div 4)
    ELSE IF r.name = "test_partial_results_outer"
    THEN test_partial_results(0 - StepRef, StepRef * 2)
    ELSE IF r.name = "test_set_step" THEN test_set_step
    ELSE IF r.name = "test_put_and_get_parameters" THEN test_put_and_get_parameters
    ELSE IF r.name = "test_set_get_scenario" THEN test_set_get_scenario(r.arg)
    ELSE << >>

----------------------------------------------------------------------------
(* Running a driver against the session *)

\* checks: the compare_ref_* calls made so far
NoLocals ==
    [step |-> 0, y |-> FALSE, i |-> 0, status |-> "", checks |-> 0,
     electricity_price |-> "", time_period |-> ""]

InitRunVars ==
    /\ session = InitSession
    /\ run = NoRun
    /\ pc = 0
    /\ loc = NoLocals
    /\ sent = <<>>
    /\ nruns = 0
    /\ unittest_result = [failures |-> 0, errors |-> 0]

Running == pc > 0

AtEnd == Running /\ pc > Len(Script(run))

Current == Script(run)[pc]

At(kind) == Running /\ ~AtEnd /\ Current.kind = kind

\* a request sent, as the log keeps it: the request, whether the answer
\* was truthy, and the phase the session was in when it arrived
Sent(req, response) ==
    [req |-> req, truthy |-> response.truthy, status |-> response.status,
     phase |-> session.phase, response |-> response]

\* the request with the step that PutStepLocal sends
Resolve(req) ==
    IF req.op = "PUT /step" /\ req.overrides = "local"
    THEN [req EXCEPT !.step = loc.step, !.overrides = ""]
    ELSE IF req.op = "PUT /scenario" /\ req.overrides = "local"
    THEN [req EXCEPT !.electricity_price = loc.electricity_price,
                     !.time_period = loc.time_period, !.overrides = ""]
    ELSE req

\* the run ends: by returning ("ok"), by an AssertionError ("failed") or by
\* another exception ("error")
EndRun(status) ==
    /\ pc' = 0
    /\ loc' = [loc EXCEPT !.status = status,
                          !.checks = IF At("compare") THEN @ + 1 ELSE @]
    /\ unittest_result' =
          [failures |-> unittest_result.failures + (IF status = "failed" THEN 1 ELSE 0),
           errors |-> unittest_result.errors + (IF status = "error" THEN 1 ELSE 0)]

StartRun ==
    /\ ~Running
    /\ nruns < MaxRuns
    /\ \E r \in Runs : run' = r
    /\ pc' = 1
    /\ loc' = NoLocals
    /\ sent' = <<>>
    /\ nruns' = nruns + 1
    /\ UNCHANGED <<session, unittest_result>>
    /\ UNCHANGED <<trajVars, refVars>>

\* a statement that sends one request; the exception of a failed request
\* ends the run
SendRequest ==
    /\ At("request")
    /\ \E h \in 0..MaxHorizon :
          LET req == Resolve(Current.req)
              r == Serve(session, req, h)
          IN  /\ session' = r.session
              /\ sent' = Append(sent, Sent(req, r.response))
              /\ IF r.response.status = "error"
                 THEN EndRun("error")
                 ELSE /\ pc' = pc + 1
                      /\ loc' = IF req.op = "GET /step"
                                THEN [loc EXCEPT !.step = r.response.step]
                                ELSE IF req.op = "GET /scenario"
                                THEN [loc EXCEPT
                                        !.electricity_price = r.response.electricity_price,
                                        !.time_period = r.response.time_period]
                                ELSE loc
                      /\ UNCHANGED unittest_result
    /\ UNCHANGED <<run, nruns>>
    /\ UNCHANGED <<trajVars, refVars>>

\* measurements = GET /measurements, inputs = GET /inputs
DoGetAllPoints ==
    /\ At("get_all_points")
    /\ sent' = sent \o << Sent(Request("GET /measurements"), Response("ok", TRUE, 0)),
                          Sent(Request("GET /inputs"), Response("ok", TRUE, 0)) >>
    /\ pc' = pc + 1
    /\ UNCHANGED <<session, run, loc, nruns, unittest_result>>
    /\ UNCHANGED <<trajVars, refVars>>

\* for point in points: PUT /results
DoResultsToDf ==
    /\ At("results_to_df")
    /\ LET points == Measurements \o Inputs
       IN  sent' = sent \o [k \in 1..Len(points) |->
                               LET req == [Current.req EXCEPT !.point_name = points[k]]
                               IN  Sent(req, Serve(session, req, 0).response)]
    /\ pc' = pc + 1
    /\ UNCHANGED <<session, run, loc, nruns, unittest_result>>
    /\ UNCHANGED <<trajVars, refVars>>

\* a compare_ref_* call: it returns, or its assertion fails and ends the run;
\* which of the two depends on the references and is left open here
DoCompare ==
    /\ At("compare")
    /\ \E pass \in BOOLEAN :
          IF pass
          THEN /\ pc' = pc + 1
               /\ loc' = [loc EXCEPT !.checks = @ + 1]
               /\ UNCHANGED unittest_result
          ELSE EndRun("failed")
    /\ UNCHANGED <<session, run, sent, nruns>>
    /\ UNCHANGED <<trajVars, refVars>>

\* whether the body of a response equals what the test expects of the path
BodyEquals(response, expected) ==
    IF expected.op \in {"GET /step", "PUT /step"}
    THEN response.step = expected.step
    ELSE IF expected.op \in {"GET /scenario", "PUT /scenario"}
    THEN /\ response.electricity_price = expected.electricity_price
         /\ response.time_period = expected.time_period
    ELSE /\ response.horizon = expected.horizon
         /\ response.interval = expected.interval

\* x = requests.get(path).json(); self.assertEqual(expected, x)
DoAssertGet ==
    /\ At("assert_get")
    /\ LET req == Request(Current.req.op)
           r == Serve(session, req, 0)
       IN  /\ session' = r.session
           /\ sent' = Append(sent, Sent(req, r.response))
           /\ IF BodyEquals(r.response, Current.req)
              THEN pc' = pc + 1 /\ UNCHANGED <<loc, unittest_result>>
              ELSE EndRun("failed")
    /\ UNCHANGED <<run, nruns>>
    /\ UNCHANGED <<trajVars, refVars>>

\* self.assertDictEqual(ret.json(), expected)
DoAssertEqual ==
    /\ At("assert_equal")
    /\ IF BodyEquals(sent[Len(sent) - Current.back].response, Current.req)
       THEN pc' = pc + 1 /\ UNCHANGED <<loc, unittest_result>>
       ELSE EndRun("failed")
    /\ UNCHANGED <<session, run, sent, nruns>>
    /\ UNCHANGED <<trajVars, refVars>>

DoAssignY ==
    /\ At("assign_y")
    /\ loc' = [loc EXCEPT !.y = TRUE]
    /\ pc' = pc + 1
    /\ UNCHANGED <<session, run, sent, nruns, unittest_result>>
    /\ UNCHANGED <<trajVars, refVars>>

\* while y:
LoopContinuesAlways(y) == TRUE

LoopContinues(y) == y

\* y = requests.post('{0}/advance', data={}).json()
WhileBody ==
    /\ At("while_advance")
    /\ LoopContinues(loc.y)
    /\ LET r == Serve(session, Current.req, 0)
       IN  /\ session' = r.session
           /\ sent' = Append(sent, Sent(Current.req, r.response))
           /\ IF r.response.status = "error"
              THEN EndRun("error")
              ELSE /\ pc' = pc
                   /\ loc' = [loc EXCEPT !.y = r.response.truthy]
                   /\ UNCHANGED unittest_result
    /\ UNCHANGED <<run, nruns>>
    /\ UNCHANGED <<trajVars, refVars>>

WhileExit ==
    /\ At("while_advance")
    /\ ~LoopContinues(loc.y)
    /\ pc' = pc + 1
    /\ UNCHANGED <<session, run, loc, sent, nruns, unittest_result>>
    /\ UNCHANGED <<trajVars, refVars>>

\* int(length / step)
IterationsMinusOne(stmt) ==
    stmt.req.final_time \div (IF stmt.req.window = "local" THEN loc.step ELSE stmt.req.step) - 1

IterationsPlusOne(stmt) ==
    stmt.req.final_time \div (IF stmt.req.window = "local" THEN loc.step ELSE stmt.req.step) + 1

Iterations(stmt) ==
    stmt.req.final_time \div (IF stmt.req.window = "local" THEN loc.step ELSE stmt.req.step)

\* one pass of the for loop
ForBody ==
    /\ At("for_advance")
    /\ loc.i < Iterations(Current)
    /\ LET req == [PostAdvance(Current.req.overrides) EXCEPT !.window = ""]
           r == Serve(session, req, 0)
       IN  /\ session' = r.session
           /\ sent' = Append(sent, Sent(req, r.response))
           /\ IF r.response.status = "error"
              THEN EndRun("error")
              ELSE /\ pc' = pc
                   /\ loc' = [loc EXCEPT !.i = @ + 1]
                   /\ UNCHANGED unittest_result
    /\ UNCHANGED <<run, nruns>>
    /\ UNCHANGED <<trajVars, refVars>>

ForExit ==
    /\ At("for_advance")
    /\ loc.i >= Iterations(Current)
    /\ pc' = pc + 1
    /\ loc' = [loc EXCEPT !.i = 0]
    /\ UNCHANGED <<session, run, sent, nruns, unittest_result>>
    /\ UNCHANGED <<trajVars, refVars>>

DoRaise ==
    /\ At("raise")
    /\ EndRun("error")
    /\ UNCHANGED <<session, run, sent, nruns>>
    /\ UNCHANGED <<trajVars, refVars>>

\* the driver returns
Return ==
    /\ AtEnd
    /\ EndRun("ok")
    /\ UNCHANGED <<session, run, sent, nruns>>
    /\ UNCHANGED <<trajVars, refVars>>

StepRun ==
    \/ SendRequest
    \/ DoGetAllPoints
    \/ DoResultsToDf
    \/ DoCompare
    \/ DoAssertGet
    \/ DoAssertEqual
    \/ DoAssignY
    \/ WhileBody
    \/ WhileExit
    \/ ForBody
    \/ ForExit
    \/ DoRaise
    \/ Return

NextRun == StartRun \/ StepRun

\* run_tests: TextTestRunner.run(suite) has returned when every case of the
\* suite has run
SuiteDone == nruns = MaxRuns /\ ~Running

\* run_tests: the log written after the suite has run
log_json ==
    LET num_cases == MaxRuns
        num_failures == unittest_result.failures
        num_errors == unittest_result.errors
        num_passed == num_cases - num_errors - num_failures
    IN  [NCases |-> num_cases, NPassed |-> num_passed, NErrors |-> num_errors,
         NFailures |-> num_failures]

----------------------------------------------------------------------------
(* Specifications *)

\* create_test_points has not been called
NotCreated == [kind |-> "not created", index |-> <<>>, data |-> <<>>]

\* create_test_points raised ValueError
Raised == [kind |-> "ValueError", index |-> <<>>, data |-> <<>>]

\* create_test_points returned the series r
Returned(r) == [kind |-> "Series", index |-> r.index, data |-> r.data]

NoPointVars ==
    /\ s_in = Series(<<>>, <<>>)
    /\ n_in = 0
    /\ s_out = NotCreated

InitTraj ==
    /\ y_test \in Trajs
    /\ y_ref \in Trajs
    /\ result = NotCalled
    /\ NoPointVars
    /\ InitRefVars
    /\ InitRunVars

InitRef ==
    /\ y_test = <<>>
    /\ y_ref = <<>>
    /\ result = NotCalled
    /\ NoPointVars
    /\ InitRefVars
    /\ InitRunVars

\* results = self.check_trajectory(y_test, y_ref)
CheckTrajectory ==
    /\ ~Called
    /\ result' = check_trajectory(y_test, y_ref)
    /\ UNCHANGED <<y_test, y_ref, s_in, n_in, s_out>>
    /\ UNCHANGED refVars
    /\ UNCHANGED runVars

NextTraj == CheckTrajectory

\* the values of a series in the model
PointVals == {0, 1, 3, 2000}

\* the series handed to create_test_points: up to MaxRows rows at increasing
\* times
SeriesIn ==
    UNION {{Series(Times(rows), data) : data \in [1..rows -> PointVals]} : rows \in 0..MaxRows}

InitPoints ==
    /\ y_test = <<>>
    /\ y_ref = <<>>
    /\ result = NotCalled
    /\ s_in \in SeriesIn
    /\ n_in \in 0..NGrid
    /\ s_out = NotCreated
    /\ InitRefVars
    /\ InitRunVars

\* s_test = self.create_test_points(s, n)
CreateTestPoints ==
    /\ s_out = NotCreated
    /\ s_out' = IF CreateTestPointsFails(s_in) THEN Raised
                ELSE Returned(create_test_points(s_in, n_in))
    /\ UNCHANGED <<y_test, y_ref, result, s_in, n_in>>
    /\ UNCHANGED refVars
    /\ UNCHANGED runVars

NextPoints == CreateTestPoints

\* create_test_points applied to every series and count within the bounds
SpecPoints == InitPoints /\ [][NextPoints]_vars

\* check_trajectory applied to every pair of trajectories within the bounds
SpecTraj == InitTraj /\ [][NextTraj]_vars

\* the reference store under any sequence of compare_ref_* calls
SpecRef == InitRef /\ [][NextRef]_vars

\* the same, where a process may die while it writes a new reference
SpecCrash == InitRef /\ [][NextCrash]_vars

\* the drivers, run one after another against one deployed test case
SpecRun == InitRef /\ [][NextRun]_vars

\* the same, where a driver that can take its next step takes it
FairRun == SpecRun /\ WF_vars(StepRun)

----------------------------------------------------------------------------
(* Claims about check_trajectory *)

\* combined[i] <= tol, as the text defines it, in whole numbers
CombinedWithinTol(t, r) ==
    LET a == Abs(t - r)
    IN  IF Abs(r) > 10 * Tol
        THEN a * Abs(r) + UnitsPerOne * a <= Tol * Abs(r)
        ELSE a <= Tol

\* C1: for two trajectories of equal length, check_trajectory returns
\* Pass = true if and only if combined[i] <= tol at every index i, that is
\* if and only if the maximum of combined is at most tol.
C1_PassIffMaxWithinTol ==
    (Called /\ Len(y_test) = Len(y_ref)) =>
        (result.Pass <=> \A i \in 1..Len(y_ref) : CombinedWithinTol(y_test[i], y_ref[i]))

\* C1 witness: equal-length trajectories with a non-zero error that passes on
\* the boundary of the relative error (ref 1.0, test 1.0005), and a failing pair.
C1_Witness ==
    /\ Called
    /\ Len(y_test) = 2 /\ Len(y_ref) = 2
    /\ y_ref[1] = 2000 /\ y_test[1] = 2001
    /\ y_ref[2] = -20 /\ y_test[2] = -21
    /\ result.Pass

\* C2: whenever the lengths differ, whatever the values, check_trajectory
\* returns Pass = false with the length message, and ErrorMax and IndexMax
\* stay None.
C2_LengthMismatch ==
    (Called /\ Len(y_test) # Len(y_ref)) =>
        /\ result.Pass = FALSE
        /\ result.Message.kind = "str"
        /\ result.Message.text = MsgLength
        /\ result.ErrorMax = PyNone
        /\ result.IndexMax = PyNone

\* C2 witness: a length mismatch whose common prefix is far out of tolerance.
C2_Witness ==
    /\ Called
    /\ Len(y_test) = 2 /\ Len(y_ref) = 1
    /\ y_test[1] = 2000 /\ y_ref[1] = 0
    /\ ~result.Pass

\* C3 (as claimed): check_trajectory(x, x) passes and its result reports a
\* maximum error of 0.
C3_SelfCheckReportsZero ==
    (Called /\ y_test = y_ref /\ Len(y_ref) > 0) =>
        /\ result.Pass
        /\ result.ErrorMax.kind = "float"
        /\ RatEq(result.ErrorMax.val, Rat(0, 1))

\* the maximum of combined over the whole trajectory, and its first index
SpecCombined == [i \in 1..Len(y_ref) |-> ErrFun(y_test[i], y_ref[i])]

\* C4 (as claimed): for equal lengths the result carries ErrorMax, the number
\* max(combined), and IndexMax, the integer argmax(combined); the two fields
\* are None only when the length check fails.
C4_ErrorMaxIsNumber ==
    (Called /\ Len(y_test) = Len(y_ref) /\ Len(y_ref) > 0) =>
        /\ result.ErrorMax.kind = "float"
        /\ RatEq(result.ErrorMax.val, MaxOf(SpecCombined))
        /\ result.IndexMax.kind = "int"
        /\ result.IndexMax.val = Rat(ArgMax(SpecCombined) - 1, 1)

----------------------------------------------------------------------------
(* Claims about the reference store *)

\* the index and column preconditions that a compare_ref_* call asserts
MeetsPreconditions(fn, arg) ==
    /\ fn = "compare_ref_timeseries_df" => arg.index_name = "time"
    /\ fn = "compare_ref_values_df" => arg.index_name = "keys" /\ arg.columns = <<"value">>

\* the file at path, read back, equals the data handed to fn
HoldsData(fn, path, arg) ==
    /\ files[path].exists
    /\ IF fn = "compare_ref_timeseries_df"
       THEN /\ ~ReadCsvFails(files[path].lines, "time")
            /\ ReadCsv(files[path].lines, "time", TRUE) = arg
       ELSE IF fn = "compare_ref_values_df"
       THEN /\ ~ReadCsvFails(files[path].lines, "keys")
            /\ ReadCsv(files[path].lines, "keys", FALSE) = arg
       ELSE /\ ~JsonLoadFails(files[path].lines)
            /\ JsonLoad(files[path].lines) = AsDict(arg)

\* C5: for each of the three compare functions, when the reference path does
\* not exist and the input meets the index/column preconditions, the call
\* succeeds, runs no comparison, and afterwards the file at the path holds
\* the supplied data.
C5_BaselineCreated ==
    (/\ call.fn # "none"
     /\ call.outcome # "crashed"
     /\ ~call.existed
     /\ MeetsPreconditions(call.fn, call.arg)) =>
        /\ call.outcome = "pass"
        /\ call.compared = 0
        /\ HoldsData(call.fn, call.path, call.arg)

\* C5 witness: a two-column, two-row dataframe became the new reference while
\* the two other references had been created before.
C5_Witness ==
    /\ call.fn = "compare_ref_timeseries_df"
    /\ ~call.existed
    /\ call.wrote
    /\ Len(call.arg.columns) = 2 /\ Len(call.arg.index) = 2
    /\ files[ValPath].exists
    /\ files[JsonPath].exists

\* C6: once a reference exists at a path, no compare_ref_* call changes its
\* content, whether the comparison passes, fails or raises.
C6_ReferenceNeverRewritten ==
    [][\A p \in Paths : files[p].exists => files'[p] = files[p]]_vars

\* C6 witness: a comparison against an existing reference that differs from
\* the data failed, and the reference is still the other data.
C6_Witness ==
    /\ call.fn = "compare_ref_timeseries_df"
    /\ call.existed
    /\ call.outcome = "fail"
    /\ call.compared > 0
    /\ files[TsPath].exists
    /\ ~HoldsData(call.fn, TsPath, call.arg)

\* C7 (as claimed): from a nonexistent reference path, calling
\* compare_ref_timeseries_df twice in a row with the same dataframe passes
\* both times.
C7_TwicePasses ==
    (call.fn = "compare_ref_timeseries_df" /\ call.after_baseline) =>
        call.outcome = "pass"

\* C8 (as claimed): a crash during the write of a new reference leaves the
\* path either absent or holding the complete data.
C8_NoPartialReference ==
    (call.outcome = "crashed") =>
        \/ ~files[call.path].exists
        \/ HoldsData(call.fn, call.path, call.arg)

----------------------------------------------------------------------------
(* Claims about the drivers *)

IsAdvance(e) == e.req.op = "POST /advance"

IsInitialize(e) == e.req.op = "PUT /initialize"

\* the advance that came back with the falsy signal (and not with an error)
IsFalsyAdvance(e) == IsAdvance(e) /\ e.status = "ok" /\ ~e.truthy

\* every advance of the run so far came after an initialize of the same run
\* and reached the session in the Initialized state
AdvancesFollowInitialize ==
    \A j \in 1..Len(sent) :
        IsAdvance(sent[j]) =>
            /\ \E i \in 1..(j - 1) : IsInitialize(sent[i])
            /\ sent[j].phase = "Initialized"

\* C9 (as claimed): in every run, run_time_period included, no advance is
\* sent before an initialize of that run, so that every advance is issued
\* in the Initialized state.
C9_AdvanceOnlyAfterInitialize == AdvancesFollowInitialize

\* C9 (amended): in run_season, testcase2.run and every API test no advance
\* is sent before an initialize of that run, and each of their advances
\* reaches the session Initialized; run_time_period sends no initialize at
\* all: each of its advances follows only its PUT /scenario with time_period.
C9_AdvanceAfterInitializeOrScenario ==
    /\ run.name # "run_time_period" => AdvancesFollowInitialize
    /\ run.name = "run_time_period" =>
          /\ \A j \in 1..Len(sent) : ~IsInitialize(sent[j])
          /\ \A j \in 1..Len(sent) :
                IsAdvance(sent[j]) =>
                    \E i \in 1..(j - 1) :
                        sent[i].req.op = "PUT /scenario" /\ sent[i].req.time_period # ""

\* C9 witness: a second run, test_initialize, has sent its advance, and so
\* has (in another state) run_time_period; the witness is the first.
C9_Witness ==
    /\ nruns = 2
    /\ run.name = "test_initialize"
    /\ \E j \in 1..Len(sent) : IsAdvance(sent[j])

\* the while loop of run_time_period is about to test y
InLoop == run.name = "run_time_period" /\ At("while_advance")

\* what the requests of a run_time_period run look like, at every moment
ExhaustionLoopShape ==
    run.name = "run_time_period" =>
        \* the advances carry no overrides
        /\ \A j \in 1..Len(sent) : IsAdvance(sent[j]) => sent[j].req.overrides = ""
        \* no advance follows the falsy one
        /\ \A i \in 1..Len(sent) : \A j \in (i + 1)..Len(sent) :
              IsFalsyAdvance(sent[i]) => ~IsAdvance(sent[j])
        \* the advances come one after another: whatever follows an advance
        \* and is not an advance comes after the falsy one
        /\ \A i \in 1..Len(sent) : \A j \in (i + 1)..Len(sent) :
              (IsAdvance(sent[i]) /\ ~IsAdvance(sent[j])) =>
                  \E k \in i..(j - 1) : IsFalsyAdvance(sent[k])
        \* results and KPIs are fetched after the loop has ended
        /\ \A j \in 1..Len(sent) :
              sent[j].req.op \in {"PUT /results", "GET /kpi"} =>
                  \E i \in 1..(j - 1) : IsFalsyAdvance(sent[i])
        \* with the falsy answer in, the loop test finds y falsy
        /\ (At("while_advance") /\ Len(sent) > 0 /\ IsFalsyAdvance(sent[Len(sent)])) => ~loc.y

\* C10: the loop of run_time_period sends advances without overrides one
\* after another, stops right after the first falsy answer and sends no
\* further advance, fetches results and KPIs only after the loop, and,
\* the session giving the falsy answer after finitely many advances, ends.
C10_RunToExhaustion == []ExhaustionLoopShape /\ (InLoop ~> ~InLoop)

\* C10 witness: a run_time_period run returned after three answered
\* advances and the falsy one, with results and KPIs fetched.
C10_Witness ==
    /\ run.name = "run_time_period"
    /\ ~Running
    /\ loc.status = "ok"
    /\ Cardinality({j \in 1..Len(sent) : IsAdvance(sent[j]) /\ sent[j].truthy}) = 3
    /\ \E j \in 1..Len(sent) : IsFalsyAdvance(sent[j])
    /\ \E j \in 1..Len(sent) : sent[j].req.op = "GET /kpi"

\* the runs that use the fixed-horizon loop
FixedHorizonRun ==
    \/ run.name = "testcase2.run"
    \/ run.name = "run_season" /\ run.arg \in {"winter", "summer", "shoulder"}

AdvancesSent == Cardinality({j \in 1..Len(sent) : IsAdvance(sent[j])})

\* the statement of the run's for loop has been left behind
LoopDone ==
    /\ Len(sent) > 0
    /\ \E k \in 1..Len(Script(run)) :
          /\ Script(run)[k].kind = "for_advance"
          /\ (pc > k \/ (pc = 0 /\ loc.status # "error"))

\* C11: the fixed-horizon loop of testcase2.run and of run_season sends
\* exactly floor(length / step) advances, step being the session's
\* communication step during the loop: never more, and no fewer once the
\* loop is left; KPIs and results are fetched only with all of them sent.
C11_FixedHorizonAdvances ==
    FixedHorizonRun =>
        /\ AdvancesSent <= Length \div session.step
        /\ LoopDone => AdvancesSent = Length \div session.step
        /\ \A j \in 1..Len(sent) :
              sent[j].req.op \in {"GET /kpi", "PUT /results"} =>
                  Cardinality({i \in 1..(j - 1) : IsAdvance(sent[i])}) = Length \div session.step

\* C11 witness: run_season has left its loop and fetched the KPIs, with
\* floor(length / step) advances sent.
C11_Witness ==
    /\ run.name = "run_season"
    /\ ~Running
    /\ loc.status = "ok"
    /\ AdvancesSent = Length \div session.step
    /\ AdvancesSent > 0
    /\ \E j \in 1..Len(sent) : sent[j].req.op = "GET /kpi"

\* the runs that check the KPIs of the three price scenarios
ScenarioRun ==
    \/ run.name = "run_time_period"
    \/ run.name = "run_season" /\ run.arg \in {"winter", "summer", "shoulder"}

IsPricePut(e) == e.req.op = "PUT /scenario" /\ e.req.electricity_price # ""

IsKpiGet(e) == e.req.op = "GET /kpi"

\* the prices of the PUT /scenario requests that a GET /kpi followed at once
KpiPrices ==
    LET at == SelectSeq([j \in 1..Len(sent) |-> j],
                        LAMBDA j : /\ IsPricePut(sent[j])
                                   /\ j < Len(sent)
                                   /\ IsKpiGet(sent[j + 1]))
    IN  [k \in 1..Len(at) |-> sent[at[k]].req.electricity_price]

PriceScenarios == << "constant", "dynamic", "highly_dynamic" >>

\* the price scenarios are set in order after the loop, each followed at
\* once by one GET /kpi, and all three once the runner has returned
PriceScenariosInOrder ==
    /\ Len(KpiPrices) <= Len(PriceScenarios)
    /\ KpiPrices = SubSeq(PriceScenarios, 1, Len(KpiPrices))
    /\ \A j \in 1..Len(sent) :
          IsKpiGet(sent[j]) =>
              /\ j > 1
              /\ IsPricePut(sent[j - 1])
    /\ \A j \in 1..Len(sent) :
          IsPricePut(sent[j]) => \A i \in (j + 1)..Len(sent) : ~IsAdvance(sent[i])
    /\ (~Running /\ loc.status = "ok") => KpiPrices = PriceScenarios

\* C12: run_time_period and run_season set the price scenarios constant,
\* dynamic and highly_dynamic in that order after the simulation loop, fetch
\* the KPIs once right after each, and when the runner has completed the
\* session's price scenario is constant again.
C12_PriceRestoredToConstant ==
    ScenarioRun =>
        /\ PriceScenariosInOrder
        /\ (~Running /\ loc.status = "ok") => session.electricity_price = "constant"

----------------------------------------------------------------------------
(* Claims about the failures that the reference store reports *)

\* the last call was compare_ref_timeseries_df with a dataframe indexed by
\* time, and it found a reference
ComparedToReference ==
    /\ call.fn = "compare_ref_timeseries_df"
    /\ call.existed
    /\ call.arg.index_name = "time"

\* the columns of the reference of the last call (a reference is never
\* rewritten, so the file still holds them)
ReferenceColumns == Range(ReadCsv(files[call.path].lines, "time", TRUE).columns)

\* the keys in one of the two column sets and not in the other
MissingKeys ==
    (ReferenceColumns \ Range(call.arg.columns)) \cup (Range(call.arg.columns) \ ReferenceColumns)

NamedKeys == {call.failures[k].key : k \in 1..Len(call.failures)}

\* C13: with a reference present, compare_ref_timeseries_df fails when the
\* column sets of reference and test differ in either direction, and the
\* failure names each missing key.
C13_EachMissingKeyNamed ==
    (ComparedToReference /\ MissingKeys # {}) =>
        /\ call.outcome = "fail"
        /\ MissingKeys \subseteq NamedKeys

\* the reference of the last call, as the call read it
ReferenceFrame == ReadCsv(files[call.path].lines, "time", TRUE)

\* the shared columns of the last call whose trajectory check fails
FailingColumns ==
    {key \in Range(call.arg.columns) :
        ~check_trajectory(
            create_test_points(Series(call.arg.index, call.arg.data[key]), NGrid).data,
            create_test_points(Series(ReferenceFrame.index, ReferenceFrame.data[key]),
                               NGrid).data).Pass}

\* the last call compared a dataframe with rows to a reference with rows and
\* the same columns
ComparedTrajectories ==
    /\ ComparedToReference
    /\ MissingKeys = {}
    /\ Len(call.arg.index) > 0
    /\ Len(ReferenceFrame.index) > 0

\* C14: with a reference present and several shared columns failing the
\* trajectory check, compare_ref_timeseries_df fails the comparison and
\* reports every failing column, not only the first.
C14_EveryFailingColumnReported ==
    (ComparedTrajectories /\ FailingColumns # {}) =>
        /\ call.outcome = "fail"
        /\ FailingColumns \subseteq NamedKeys

\* the last call was compare_ref_values_df with a table that meets its two
\* assertions, and it found a reference
ComparedToScalarReference ==
    /\ call.fn = "compare_ref_values_df"
    /\ call.existed
    /\ call.arg.index_name = "keys"
    /\ call.arg.columns = <<"value">>

ReferenceKeys == Range(ReadCsv(files[call.path].lines, "keys", FALSE).index)

\* the keys in one of the two tables and not in the other
KeyDifference ==
    (ReferenceKeys \ Range(call.arg.index)) \cup (Range(call.arg.index) \ ReferenceKeys)

\* C15: with a scalar reference present whose keys differ from the test
\* table's in either direction, compare_ref_values_df ends in a failed
\* verdict that names an offending key; the difference is never ignored.
C15_KeyDifferenceSurfaced ==
    (ComparedToScalarReference /\ KeyDifference # {}) =>
        /\ call.outcome = "fail"
        /\ NamedKeys \cap KeyDifference # {}

----------------------------------------------------------------------------
(* Claims about a batch of comparisons *)

\* the compare_ref_* calls that the driver's code holds
Comparisons(script) == Cardinality({k \in 1..Len(script) : script[k].kind = "compare"})

\* a driver has ended by returning or by the AssertionError of a comparison
EndedOnComparisons == run # NoRun /\ ~Running /\ loc.status \in {"ok", "failed"}

\* C16: a failing comparison does not abort its siblings: every comparison
\* of a driver is executed whether or not one of them fails, every case of
\* the suite is run, and the counts that run_tests reports add up to NCases.
C16_SiblingsNotAborted ==
    /\ EndedOnComparisons => loc.checks = Comparisons(Script(run))
    /\ SuiteDone =>
          /\ log_json.NPassed + log_json.NFailures + log_json.NErrors = log_json.NCases
          /\ log_json.NCases = nruns

----------------------------------------------------------------------------
(* Claims about the configuration of the session *)

\* request j of the run is a PUT on path and the next request is the GET
PutThenGet(j, path) ==
    /\ j < Len(sent)
    /\ sent[j].req.op = "PUT " \o path
    /\ sent[j + 1].req.op = "GET " \o path

\* C17: what is set is what is got next: a GET /step right after PUT /step
\* with v returns v; the response of PUT /forecast_parameters and the GET
\* right after it carry the horizon and interval that were put; a GET
\* /scenario right after a PUT /scenario with electricity_price and
\* time_period returns that scenario.
C17_ConfigurationRoundTrip ==
    \A j \in 1..Len(sent) :
        /\ PutThenGet(j, "/step") => sent[j + 1].response.step = sent[j].req.step
        /\ sent[j].req.op = "PUT /forecast_parameters" =>
              /\ sent[j].response.horizon = sent[j].req.horizon
              /\ sent[j].response.interval = sent[j].req.interval
        /\ PutThenGet(j, "/forecast_parameters") =>
              /\ sent[j + 1].response.horizon = sent[j].req.horizon
              /\ sent[j + 1].response.interval = sent[j].req.interval
        /\ (/\ PutThenGet(j, "/scenario")
            /\ sent[j].req.electricity_price # ""
            /\ sent[j].req.time_period # "") =>
              /\ sent[j + 1].response.electricity_price = sent[j].req.electricity_price
              /\ sent[j + 1].response.time_period = sent[j].req.time_period

\* C17 witness: test_set_get_scenario, started after another test, has put
\* the scenario and got it back, and has returned.
C17_Witness ==
    /\ nruns = 2
    /\ run.name = "test_set_get_scenario"
    /\ ~Running
    /\ loc.status = "ok"
    /\ \E j \in 1..Len(sent) :
          /\ PutThenGet(j, "/scenario")
          /\ sent[j + 1].response.electricity_price = "highly_dynamic"
          /\ sent[j + 1].response.time_period = "test_day"

\* C18: in testcase2.run, after initialize(start_time = 0, warmup_period =
\* 0), set_step(3600) and 48 advances that each moved the clock by one step,
\* every results query over [0, 48 * 3600] returns a trajectory whose first
\* time is 0 and whose last time is 48 * 3600.
C18_ResultsSpanTheHorizon ==
    run.name = "testcase2.run" =>
        \A j \in 1..Len(sent) :
            (sent[j].req.op = "PUT /results" /\ sent[j].status = "ok") =>
                /\ Cardinality({i \in 1..(j - 1) : IsAdvance(sent[i]) /\ sent[i].truthy}) = 48
                /\ sent[j].req.start_time = 0
                /\ sent[j].req.final_time = 48 * 3600
                /\ sent[j].truthy
                /\ sent[j].response.first_time = 0
                /\ sent[j].response.last_time = 48 * 3600

\* C18 witness: testcase2.run, started after another run, has returned with
\* its 48 advances sent and the results of a measurement fetched.
C18_Witness ==
    /\ nruns = 2
    /\ run.name = "testcase2.run"
    /\ ~Running
    /\ loc.status = "ok"
    /\ AdvancesSent = 48
    /\ \E j \in 1..Len(sent) :
          /\ sent[j].req.op = "PUT /results"
          /\ sent[j].req.point_name = Measurements[1]
          /\ sent[j].response.last_time = session.clock

----------------------------------------------------------------------------
(* Claims about create_test_points *)

\* the times of the returned series are evenly spaced
EvenlySpaced(t) ==
    \A i \in 1..(Len(t) - 2) :
        RatEq(Rat(t[i + 1].n * t[i].d - t[i].n * t[i + 1].d, t[i].d * t[i + 1].d),
              Rat(t[i + 2].n * t[i + 1].d - t[i + 1].n * t[i + 2].d, t[i + 1].d * t[i + 2].d))

\* the returned series has k points, from the time lo to the time hi
Spans(r, k, lo, hi) ==
    /\ r.kind = "Series"
    /\ Len(r.index) = k
    /\ Len(r.data) = k
    /\ k > 0
    /\ RatEq(r.index[1], Rat(lo, 1))
    /\ RatEq(r.index[k], Rat(hi, 1))
    /\ EvenlySpaced(r.index)

\* C19 (as claimed, without its last clause): for every trajectory and every
\* count n, create_test_points returns exactly n points, the first at the
\* minimum time and the last at the maximum time, evenly spaced in between.
C19_ExactlyNPointsMinToMax ==
    s_out # NotCreated =>
        /\ s_out.kind = "Series"
        /\ Spans(s_out, n_in, MinOf(s_in.index), MaxOfInts(s_in.index))

\* C19 (amended): for a trajectory with at least one point and n >= 2,
\* create_test_points returns exactly n points, the first at the minimum
\* time and the last at the maximum time, evenly spaced; for n = 1 it
\* returns the single point at the minimum time, for n = 0 an empty series;
\* for a trajectory without points it raises ValueError; and it never
\* modifies the trajectory handed in.
C19_NPointsForTwoOrMore ==
    /\ [](s_out # NotCreated =>
            IF Len(s_in.index) = 0 THEN s_out = Raised
            ELSE IF n_in >= 2 THEN Spans(s_out, n_in, MinOf(s_in.index), MaxOfInts(s_in.index))
            ELSE IF n_in = 1 THEN Spans(s_out, 1, MinOf(s_in.index), MinOf(s_in.index))
            ELSE s_out = Returned(Series(<<>>, <<>>)))
    /\ [][s_in' = s_in]_vars

\* C19 witness: three points created from a series of two rows, the middle
\* one halfway between the two times.
C19_Witness ==
    /\ s_out.kind = "Series"
    /\ Len(s_in.index) = 2
    /\ n_in = 3
    /\ Len(s_out.index) = 3
    /\ RatEq(s_out.index[2], Rat(s_in.index[1] + s_in.index[2], 2))
    /\ RatEq(s_out.index[3], Rat(s_in.index[2], 1))

----------------------------------------------------------------------------
(* Claims about the communication step that the API tests leave behind *)

\* the API tests that change the step
StepChangingTests ==
    {"test_set_step", "test_initialize", "test_advance_no_data",
     "test_advance_false_overwrite", "test_partial_results_inner",
     "test_partial_results_outer"}

\* a step-changing API test has finished; where the test puts back the
\* step that it read at its start, that step was step_ref
StepChangingTestFinished ==
    /\ run.name \in StepChangingTests
    /\ ~Running
    /\ run.name \in {"test_set_step", "test_initialize"} => loc.step = StepRef

\* C20: the session's step being step_ref before a step-changing API test,
\* it is step_ref again when the test has finished, whatever the order of
\* the tests, so that test_get_step always observes the same value.
C20_StepIsStepRefAfterTest == StepChangingTestFinished => session.step = StepRef

----------------------------------------------------------------------------
(* Claims about the result dictionary of check_trajectory *)

\* the check failed on the tolerance: the lengths agree and Pass is false
ToleranceFailure == Called /\ Len(y_test) = Len(y_ref) /\ ~result.Pass

\* C21: in every result of check_trajectory Message is None exactly when
\* Pass is true, and on a tolerance failure the recorded ErrorMax is a
\* number greater than tol and IndexMax is an index within the trajectory.
C21_MessageIffFailedAndErrorRecorded ==
    Called =>
        /\ (result.Message = NoMessage) <=> result.Pass
        /\ ToleranceFailure =>
              /\ result.ErrorMax.kind = "float"
              /\ RatGt(result.ErrorMax.val, Rat(Tol, 1))
              /\ result.IndexMax.kind = "int"
              /\ result.IndexMax.val.d = 1
              /\ result.IndexMax.val.n \in 0..(Len(y_ref) - 1)

====
